---- MODULE Spec2Model ----
(***************************************************************************)
(* Model of the push notifier: one dispatch pass of main.py at a time,     *)
(* over the push_sent ledger (src/db.py), the event filter (src/events.py) *)
(* and the delivery routine send_push_notification (src/push.py).          *)
(*                                                                         *)
(* A pass is split at its points of interaction with the outside world:    *)
(* the setup (connection, subscriber listing, event fetch), the evaluation *)
(* of one subscriber up to the call of send_push_notification, and each    *)
(* delivery POST with the ledger writes that follow it.  Exactly one of    *)
(* the steps is enabled at a time inside a pass.                           *)
(*                                                                         *)
(* Time of day is in minutes since midnight, days are numbered from 0.     *)
(* Event uids are non-empty and unique in a fetched list (Event data       *)
(* model), and a (sub_id, device_id) pair names one row of the push table. *)
(***************************************************************************)
EXTENDS Integers, Sequences, FiniteSets, TLC

\* ---------------------------------------------------------------- bounds
MaxPasses == 2
MaxDay == 1
\* minutes that can pass between the now of the pass and the now of a send
MaxSendDelay == 1

\* ------------------------------------------------------ program constants
MinutesPerDay == 1440
GraceMinutes == 15
HTTP_OK == 200
PermanentStatuses == {403, 404, 410}

\* ------------------------------------------------------------ input sets
\* Status codes the backend answers with; 500 stands for every other status.
Statuses == {200, 403, 404, 410, 500}
\* Status recorded in the log of POSTs when session.post raised.
RequestException == 0

\* A date/time field of an event row: absent, or a value in some format.
Absent == [fmt |-> "none", day |-> 0, min |-> 0]
IsoDate(d) == [fmt |-> "iso-date", day |-> d, min |-> 0]
IsoDateTime(d, m) == [fmt |-> "iso-datetime", day |-> d, min |-> m]

E1 == [uid |-> "u1", summary |-> <<"Lab", "101", "opens">>,
       start_dateTime |-> IsoDateTime(0, 540), start_date |-> Absent,
       end_dateTime |-> IsoDateTime(0, 600), end_date |-> Absent,
       formatted_time |-> Absent]
E2 == [uid |-> "u2", summary |-> <<"lab", "exam">>,
       start_dateTime |-> Absent, start_date |-> IsoDate(1),
       end_dateTime |-> Absent, end_date |-> IsoDate(2),
       formatted_time |-> Absent]
E3 == [uid |-> "u3", summary |-> <<"Exam">>,
       start_dateTime |-> IsoDateTime(1, 600), start_date |-> Absent,
       end_dateTime |-> IsoDateTime(2, 660), end_date |-> Absent,
       formatted_time |-> Absent]
E4 == [uid |-> "u4", summary |-> <<"lab">>,
       start_dateTime |-> Absent, start_date |-> Absent,
       end_dateTime |-> Absent, end_date |-> Absent,
       formatted_time |-> Absent]

\* The lists the spreadsheet export can answer with (rows in sheet order).
EventLists == {<<>>, <<E1, E2>>, <<E3, E4>>}

Uids == {"u1", "u2", "u3", "u4"}

\* Rows of push JOIN subscribers.  keywords, notification_day_before and
\* notification_time belong to the subscriber (id); endpoint, device_id and
\* send_push_with_notifications belong to the device row.
SubA == [id |-> 1, device_id |-> "a", endpoint |-> "ep1a",
         send_push_with_notifications |-> TRUE, keywords |-> {"lab"},
         notification_day_before |-> TRUE, notification_time |-> 480]
SubA2 == [id |-> 1, device_id |-> "b", endpoint |-> "ep1b",
          send_push_with_notifications |-> FALSE, keywords |-> {"lab"},
          notification_day_before |-> TRUE, notification_time |-> 480]
SubB == [id |-> 2, device_id |-> "a", endpoint |-> "ep2a",
         send_push_with_notifications |-> TRUE, keywords |-> {"LAB", "exam"},
         notification_day_before |-> FALSE, notification_time |-> 480]
SubC == [id |-> 3, device_id |-> "a", endpoint |-> "ep3a",
         send_push_with_notifications |-> FALSE, keywords |-> {},
         notification_day_before |-> FALSE, notification_time |-> 480]
SubC2 == [id |-> 3, device_id |-> "b", endpoint |-> "ep3b",
          send_push_with_notifications |-> TRUE, keywords |-> {},
          notification_day_before |-> FALSE, notification_time |-> 480]
SubD == [id |-> 4, device_id |-> "a", endpoint |-> "ep4a",
         send_push_with_notifications |-> TRUE, keywords |-> {"lab"},
         notification_day_before |-> TRUE, notification_time |-> 1430]

\* Contents of the push table a run can find.
PushTables == {<<SubA, SubB>>, <<SubA2, SubA>>, <<SubC, SubD>>, <<SubC2, SubC>>}

\* Times of day at which a pass samples now_rome.
NowTimes == {470, 485, 500}

Keys == {1, 2, 3, 4} \X {"a", "b"} \X Uids

\* ------------------------------------------------------------- state
VARIABLES
  pushTable,      \* push JOIN subscribers in the database
  push_sent,      \* the push_sent table: set of <<sub_id, device_id, uid>>
  pc,             \* position of the process: "idle", "loop", "send"
  passes,         \* number of passes started so far
  now_day,        \* now_rome: day number
  now_time,       \* now_rome: time of day, minutes
  subs,           \* main: subs
  events,         \* main: events
  i,              \* main: position of the for loop in subs
  errors,         \* main: errors
  notifications,  \* main: notifications
  payload,        \* send_push_notification: events
  notification_type, \* send_push_notification: notification_type
  j,              \* send_push_notification: position of the loop over events
  results,        \* send_push_notification: results
  today,          \* send_push_notification: today (day number), -1 outside
  setup_failed,   \* history: the latest pass ended in its setup
  decision,       \* history: what main decided for the subscriber before i
  post,           \* history: the latest delivery POST of the pass
  delivered,      \* history: keys covered by a POST answered 200
  redelivered,    \* history: keys covered by more than one POST answered 200
  daily_delivered, \* history: <<sub_id, device_id>> of the Daily notifications
                  \* answered 200 on day now_day
  lastTransient   \* history: keys whose latest send failed transiently

vars == <<pushTable, push_sent, pc, passes, now_day, now_time, subs, events,
          i, errors, notifications, payload, notification_type, j, results,
          today, setup_failed, decision, post, delivered, redelivered,
          daily_delivered, lastTransient>>

\* ------------------------------------------------------------- helpers
NoDecision == [sub |-> 0, filtered |-> <<>>, today |-> <<>>, tomorrow |-> <<>>,
               type |-> "none", uids |-> <<>>, raised |-> FALSE,
               window |-> FALSE]
NoPost == [sub |-> 0, type |-> "none", uids |-> <<>>, status |-> -1,
           stored |-> {}, remaining |-> 0, body |-> "none",
           rendered |-> [shape |-> "none", label |-> "none", sdate |-> -1,
                         stime |-> Absent, edate |-> -1, etime |-> Absent]]
Range(s) == {s[k] : k \in 1..Len(s)}
UidsOf(evs) == [k \in 1..Len(evs) |-> evs[k].uid]
Key(sub, uid) == <<sub.id, sub.device_id, uid>>

\* str.lower() on the words of the vocabulary
Lower(w) ==
  CASE w = "Lab" -> "lab"
    [] w = "LAB" -> "lab"
    [] w = "Exam" -> "exam"
    [] OTHER -> w

\* ------------------------------------------------------ src/events.py
\* filter_events_kw taking an empty keyword list for no filter at all
filter_events_kw_all(evs, keywords) ==
  IF keywords = {} THEN evs
  ELSE SelectSeq(evs, LAMBDA evt :
         \E kw \in keywords : \E k \in 1..Len(evt.summary) :
            Lower(kw) = Lower(evt.summary[k]))

\* The summary is held as its sequence of alphanumeric words, which is what
\* the two re.sub calls leave; a keyword matches a whole word, ignoring case.
filter_events_kw(evs, keywords) ==
  IF keywords = {} THEN <<>>
  ELSE SelectSeq(evs, LAMBDA evt :
         \E kw \in keywords : \E k \in 1..Len(evt.summary) :
            Lower(kw) = Lower(evt.summary[k]))

\* remove_sent_events without the membership test
remove_sent_events_keep(evs, sent) == evs

remove_sent_events(evs, sent) ==
  SelectSeq(evs, LAMBDA event : event.uid \notin sent)

\* ------------------------------------------------------ src/db.py
\* the sent uids of the subscriber, whatever the device
get_all_sent_push_id_any(table, user_id, device_id) ==
  {r[3] : r \in {x \in table : x[1] = user_id}}

get_all_sent_push_id(table, user_id, device_id) ==
  {r[3] : r \in {x \in table : x[1] = user_id /\ x[2] = device_id}}

store_push_sent(table, user_id, event_id, device_id) ==
  table \cup {<<user_id, device_id, event_id>>}

\* ------------------------------------------------------ src/main.py
\* minutes since day 0 of the resolved start, or -1 for None
event_start_dt(event) ==
  IF event.start_dateTime.fmt # "none"
    THEN IF event.start_dateTime.fmt = "iso-datetime"
           THEN event.start_dateTime.day * MinutesPerDay + event.start_dateTime.min
           ELSE -1
    ELSE IF event.start_date.fmt # "none"
           THEN IF event.start_date.fmt = "iso-date"
                  THEN event.start_date.day * MinutesPerDay
                  ELSE -1
           ELSE -1

\* in_day with the end of the day included
in_day_closed(event, day_start) ==
  LET dt == event_start_dt(event)
  IN  IF dt = -1 THEN FALSE
      ELSE day_start <= dt /\ dt <= day_start + MinutesPerDay

in_day(event, day_start) ==
  LET dt == event_start_dt(event)
  IN  IF dt = -1 THEN FALSE
      ELSE day_start <= dt /\ dt < day_start + MinutesPerDay

format_event_for_display(event) ==
  LET e1 == IF event.start_date.fmt = "iso-date"
              THEN [event EXCEPT !.start_date.fmt = "dmy-date"] ELSE event
      e2 == IF e1.end_date.fmt = "iso-date"
              THEN [e1 EXCEPT !.end_date.fmt = "dmy-date"] ELSE e1
      e3 == IF e2.start_dateTime.fmt = "iso-datetime"
              THEN [e2 EXCEPT !.formatted_time =
                      [fmt |-> "hhmm", day |-> 0, min |-> e2.start_dateTime.min]]
              ELSE e2
      e4 == IF e3.end_dateTime.fmt = "iso-datetime"
              THEN [e3 EXCEPT !.end_dateTime =
                      [fmt |-> "hhmm", day |-> 0, min |-> e3.end_dateTime.min]]
              ELSE e3
  IN  e4

FormatAll(evs) == [k \in 1..Len(evs) |-> format_event_for_display(evs[k])]

\* time of day of daily_notification_datetime_end
daily_notification_datetime_end(sub) ==
  (sub.notification_time + GraceMinutes) % MinutesPerDay

InDailyWindow(sub, t) ==
  sub.notification_time <= t /\ t <= daily_notification_datetime_end(sub)

NoCall == [call |-> FALSE, type |-> "none", events |-> <<>>]
Call(type, evs) == [call |-> TRUE, type |-> type, events |-> evs]

\* the window branch folding tomorrow's events in whatever the preference is
WindowDecision_fold(sub, events_today, events_tomorrow) ==
  IF sub.notification_day_before \/ events_today # <<>>
    THEN Call("Daily Notification", events_today \o events_tomorrow)
    ELSE NoCall

\* main.py 123-135: inside the daily window
WindowDecision(sub, events_today, events_tomorrow) ==
  IF sub.notification_day_before
    THEN Call("Daily Notification", events_today \o events_tomorrow)
    ELSE IF events_today # <<>>
           THEN Call("Daily Notification", events_today)
           ELSE NoCall

\* outside the window, without the deadline test for a subscriber who opted
\* out of the day-before notice
OutsideDecision_early(sub, t, events_today, events_tomorrow) ==
  IF sub.notification_day_before
    THEN IF t > daily_notification_datetime_end(sub)
           THEN Call("Last Minute Notification", events_today \o events_tomorrow)
           ELSE IF events_today # <<>>
                  THEN Call("Last Minute Notification", events_today)
                  ELSE NoCall
    ELSE IF events_today # <<>>
           THEN Call("Last Minute Notification", events_today)
           ELSE NoCall

\* outside the window, folding tomorrow's events in before the window too
OutsideDecision_fold(sub, t, events_today, events_tomorrow) ==
  IF sub.notification_day_before
    THEN IF t > daily_notification_datetime_end(sub) \/ events_today # <<>>
           THEN Call("Last Minute Notification", events_today \o events_tomorrow)
           ELSE NoCall
    ELSE IF events_today # <<>>
           THEN IF t > daily_notification_datetime_end(sub)
                  THEN Call("Last Minute Notification", events_today)
                  ELSE NoCall
           ELSE NoCall

\* main.py 136-156: outside the daily window
OutsideDecision(sub, t, events_today, events_tomorrow) ==
  IF sub.notification_day_before
    THEN IF t > daily_notification_datetime_end(sub)
           THEN Call("Last Minute Notification", events_today \o events_tomorrow)
           ELSE IF events_today # <<>>
                  THEN Call("Last Minute Notification", events_today)
                  ELSE NoCall
    ELSE IF events_today # <<>>
           THEN IF t > daily_notification_datetime_end(sub)
                  THEN Call("Last Minute Notification", events_today)
                  ELSE NoCall
           ELSE NoCall

\* immediate mode looking at today's events only
ImmediateDecision_today(events_today, events_tomorrow) ==
  IF events_today # <<>>
    THEN Call("Last Minute Notification", events_today)
    ELSE NoCall

\* main.py 173-180: immediate mode
ImmediateDecision(events_today, events_tomorrow) ==
  IF events_today # <<>> \/ events_tomorrow # <<>>
    THEN Call("Last Minute Notification", events_today \o events_tomorrow)
    ELSE NoCall

\* The branch of the subscriber loop that is taken, and what it hands to
\* send_push_notification.
Decision(sub, t, events_today, events_tomorrow) ==
  IF sub.send_push_with_notifications
    THEN IF InDailyWindow(sub, t)
           THEN WindowDecision(sub, events_today, events_tomorrow)
           ELSE OutsideDecision(sub, t, events_today, events_tomorrow)
    ELSE ImmediateDecision(events_today, events_tomorrow)

\* ------------------------------------------------------ src/push.py
\* ok for every status below 500; removed for 410 only
PostOk_lax(raised, status) == ~raised /\ status < 500
PostRemoved_gone(raised, status) == ~raised /\ status = 410

\* _post_and_store: ok, removed
PostOk(raised, status) == ~raised /\ status = HTTP_OK
PostRemoved(raised, status) == ~raised /\ status \in PermanentStatuses

\* the ledger writes made whatever the answer was
StoredUids_always(ok, event_uids, user_id, device_id, connected, written) ==
  IF event_uids # <<>> /\ user_id # 0 /\ device_id # "" /\ connected
    THEN {event_uids[k] : k \in 1..written}
    ELSE {}

\* _post_and_store: the uids written to push_sent.  connected: NotifierDB()
\* succeeded; written: number of store_push_sent calls that succeed before
\* one raises (the except clause swallows the failure).
StoredUids(ok, event_uids, user_id, device_id, connected, written) ==
  IF ok /\ event_uids # <<>> /\ user_id # 0 /\ device_id # ""
    THEN IF connected
           THEN {event_uids[k] : k \in 1..written}
           ELSE {}
    ELSE {}

\* the uids covered by the POST at position k of the payload
PostUids(type, evs, k) ==
  IF type = "Daily Notification" THEN UidsOf(evs) ELSE <<evs[k].uid>>

\* push.py 200-211, 224: the body is the count message for a Daily of more
\* than one event, and the body built for the event otherwise
PostBody(type, evs) ==
  IF type = "Daily Notification" /\ Len(evs) > 1 THEN "count" ELSE "event"

\* push.py 15-84: (start_date, start_time, end_date, end_time); a date is a
\* day number or -1 for None, a time is an HH:MM value or Absent for None.
\* A value without 'T' in a dateTime field is taken as a time as it stands;
\* a date field, ISO or DD/MM/YYYY, overrides the date of the dateTime.
parse_event_datetime(ev) ==
  LET sdt == ev.start_dateTime
      sd == ev.start_date
      edt == ev.end_dateTime
      ed == ev.end_date
      hhmm(f) == [fmt |-> "hhmm", day |-> 0, min |-> f.min]
  IN  [start_date |-> IF sd.fmt \in {"iso-date", "dmy-date"} THEN sd.day
                      ELSE IF sdt.fmt = "iso-datetime" THEN sdt.day ELSE -1,
       start_time |-> IF sdt.fmt = "iso-datetime" THEN hhmm(sdt)
                      ELSE IF sdt.fmt = "hhmm" THEN sdt ELSE Absent,
       end_date |-> IF ed.fmt \in {"iso-date", "dmy-date"} THEN ed.day
                    ELSE IF edt.fmt = "iso-datetime" THEN edt.day ELSE -1,
       end_time |-> IF edt.fmt = "iso-datetime" THEN hhmm(edt)
                    ELSE IF edt.fmt = "hhmm" THEN edt ELSE Absent]

\* A rendered body without its summary: which of the formats of
\* _build_body_for_event it has and the values printed in it.
Body(shape, label, sdate, stime, edate, etime) ==
  [shape |-> shape, label |-> label, sdate |-> sdate, stime |-> stime,
   edate |-> edate, etime |-> etime]
NoBody == Body("none", "none", -1, Absent, -1, Absent)
\* push.py 203: "Sono previsti N eventi."
CountBody == Body("count", "none", -1, Absent, -1, Absent)

\* push.py 107-112, 133-138
DayLabel(d, today_, tomorrow_) ==
  IF d = today_ THEN "Oggi" ELSE IF d = tomorrow_ THEN "Domani" ELSE "date"

\* push.py 87-148.  end.dateTime, ISO or HH:MM, holds a ':' and is taken as
\* the end time as it stands.
build_body_for_event(ev, today_, tomorrow_) ==
  LET p == parse_event_datetime(ev)
      start_date == p.start_date
      end_date == p.end_date
      start_time == IF ev.formatted_time.fmt # "none" THEN ev.formatted_time
                    ELSE p.start_time
      end_time == IF ev.end_dateTime.fmt # "none" THEN ev.end_dateTime
                  ELSE p.end_time
      has_start == start_time.fmt # "none"
      has_end == end_time.fmt # "none"
  IN  IF start_date # -1 /\ (end_date = -1 \/ start_date = end_date)
        THEN Body("day", DayLabel(start_date, today_, tomorrow_), start_date,
                  start_time, -1, IF has_start THEN end_time ELSE Absent)
      ELSE IF start_date # -1 /\ end_date # -1
        THEN IF has_start /\ has_end
               THEN Body("range", "none", start_date, start_time, end_date, end_time)
               ELSE Body("range", "none", start_date, Absent, end_date, Absent)
      ELSE IF end_date # -1
        THEN Body("end", DayLabel(end_date, today_, tomorrow_), -1, Absent,
                  end_date, end_time)
      ELSE Body("bare", "none", -1, start_time, -1,
                IF has_start THEN end_time ELSE Absent)

\* push.py 203, 211, 224: the body of the POST at position k of the payload
RenderedBody(type, evs, k, today_) ==
  IF type = "Daily Notification"
    THEN IF Len(evs) > 1 THEN CountBody
         ELSE build_body_for_event(evs[1], today_, today_ + 1)
    ELSE build_body_for_event(evs[k], today_, today_ + 1)

\* push.py 165-167: the days datetime.now(tz).date() can answer when the call
\* is made, at or after the now of the pass
SendDays(d, t) ==
  {d} \cup (IF t + MaxSendDelay >= MinutesPerDay THEN {d + 1} ELSE {})

\* whether send_push_notification returns after the POST at position k
SendReturns(type, evs, k, removed) ==
  type = "Daily Notification" \/ removed \/ k = Len(evs)

\* send_push_notification raises before any POST: events[0] of an empty list
SendRaises(type, evs) == type = "Daily Notification" /\ Len(evs) = 0

\* ------------------------------------------------------------- Init
InitWith(tables) ==
  /\ pushTable \in tables
  /\ push_sent = {}
  /\ pc = "idle"
  /\ passes = 0
  /\ now_day = 0
  /\ now_time = 0
  /\ subs = <<>>
  /\ events = <<>>
  /\ i = 1
  /\ errors = 0
  /\ notifications = 0
  /\ payload = <<>>
  /\ notification_type = "none"
  /\ j = 1
  /\ results = <<>>
  /\ today = -1
  /\ setup_failed = FALSE
  /\ decision = NoDecision
  /\ post = NoPost
  /\ delivered = {}
  /\ redelivered = {}
  /\ daily_delivered = {}
  /\ lastTransient = {}

Init == InitWith(PushTables)

\* ------------------------------------------------------------- actions
\* The process ends: its variables are gone, the database and the clock stay.
ProcessExit ==
  /\ pc' = "idle"
  /\ subs' = <<>>
  /\ events' = <<>>
  /\ i' = 1
  /\ errors' = 0
  /\ notifications' = 0
  /\ payload' = <<>>
  /\ notification_type' = "none"
  /\ j' = 1
  /\ results' = <<>>
  /\ today' = -1
  /\ decision' = NoDecision
  /\ post' = NoPost

\* main.py 17-24, 85-89: a pass starts; the setup succeeds.  fetched is the
\* result of get_events, the empty list when the fetch or the parse failed.
StartPassAt(times, lists) ==
  /\ pc = "idle"
  /\ passes < MaxPasses
  /\ \E d \in now_day..MaxDay, t \in times, fetched \in lists :
       /\ d > now_day \/ t >= now_time
       /\ now_day' = d
       /\ now_time' = t
       /\ daily_delivered' = IF d > now_day THEN {} ELSE daily_delivered
       /\ events' = fetched
  /\ passes' = passes + 1
  /\ subs' = pushTable
  /\ pc' = "loop"
  /\ setup_failed' = FALSE
  /\ UNCHANGED <<pushTable, push_sent, i, errors, notifications, payload,
                 notification_type, j, results, today, decision, post,
                 delivered, redelivered, lastTransient>>

StartPass == StartPassAt(NowTimes, EventLists)

\* a setup failure after which the run goes on into the loop
SetupFailure_continue ==
  /\ pc = "idle"
  /\ passes < MaxPasses
  /\ \E d \in now_day..MaxDay, t \in NowTimes :
       /\ d > now_day \/ t >= now_time
       /\ now_day' = d
       /\ now_time' = t
       /\ daily_delivered' = IF d > now_day THEN {} ELSE daily_delivered
  /\ passes' = passes + 1
  /\ setup_failed' = TRUE
  /\ subs' = pushTable
  /\ events' = <<>>
  /\ pc' = "loop"
  /\ UNCHANGED <<pushTable, push_sent, i, errors, notifications, payload,
                 notification_type, j, results, today, decision, post,
                 delivered, redelivered, lastTransient>>

\* main.py 85-87, 186-188: NotifierDB() or get_subscribers_push raises; the
\* outer except ends the pass before the loop.
SetupFailure ==
  /\ pc = "idle"
  /\ passes < MaxPasses
  /\ \E d \in now_day..MaxDay, t \in NowTimes :
       /\ d > now_day \/ t >= now_time
       /\ now_day' = d
       /\ now_time' = t
       /\ daily_delivered' = IF d > now_day THEN {} ELSE daily_delivered
  /\ passes' = passes + 1
  /\ setup_failed' = TRUE
  /\ ProcessExit
  /\ UNCHANGED <<pushTable, push_sent, delivered, redelivered, lastTransient>>

\* main.py 94, 186-188: get_all_sent_push_id raises outside the inner try;
\* the outer except ends the pass.
LedgerReadFailure ==
  /\ pc = "loop"
  /\ i <= Len(subs)
  /\ ProcessExit
  /\ UNCHANGED <<pushTable, push_sent, passes, now_day, now_time, setup_failed,
                 delivered, redelivered, daily_delivered, lastTransient>>

\* the evaluation formatting the events of the payload in place, in the
\* fetched list
EvaluateSubscriber_inplace ==
  /\ pc = "loop"
  /\ i <= Len(subs)
  /\ LET sub == subs[i]
         sent_push_ids == get_all_sent_push_id(push_sent, sub.id, sub.device_id)
         events_filtered == remove_sent_events(
                              filter_events_kw(events, sub.keywords), sent_push_ids)
         today_rome == now_day * MinutesPerDay
         tomorrow_rome == today_rome + MinutesPerDay
         events_today == SelectSeq(events_filtered, LAMBDA e : in_day(e, today_rome))
         events_tomorrow == SelectSeq(events_filtered, LAMBDA e : in_day(e, tomorrow_rome))
         dec == Decision(sub, now_time, events_today, events_tomorrow)
         pl == FormatAll(dec.events)
         raises == dec.call /\ SendRaises(dec.type, pl)
         posting == dec.call /\ ~raises /\ Len(pl) > 0
     IN  /\ decision' =
               [sub |-> i, filtered |-> UidsOf(events_filtered),
                today |-> UidsOf(events_today), tomorrow |-> UidsOf(events_tomorrow),
                type |-> dec.type, uids |-> UidsOf(pl), raised |-> raises,
                window |-> sub.send_push_with_notifications
                             /\ InDailyWindow(sub, now_time)]
         /\ errors' = IF raises THEN errors + 1 ELSE errors
         /\ notifications' = IF dec.call /\ ~raises /\ ~posting
                               THEN notifications + 1 ELSE notifications
         /\ payload' = IF posting THEN pl ELSE <<>>
         /\ notification_type' = IF posting THEN dec.type ELSE "none"
         /\ pc' = IF posting THEN "send" ELSE "loop"
         /\ i' = IF posting THEN i ELSE i + 1
         /\ events' = [k \in 1..Len(events) |->
                         IF dec.call /\ events[k].uid \in Range(UidsOf(dec.events))
                           THEN format_event_for_display(events[k])
                           ELSE events[k]]
         /\ IF posting
              THEN today' \in SendDays(now_day, now_time)
              ELSE today' = -1
  /\ j' = 1
  /\ results' = <<>>
  /\ UNCHANGED <<pushTable, push_sent, passes, now_day, now_time, subs,
                 setup_failed, post, delivered, redelivered, daily_delivered,
                 lastTransient>>

\* main.py 91-183: one subscriber, up to the first POST of
\* send_push_notification (or to the end of the iteration when nothing is
\* posted).
EvaluateSubscriber ==
  /\ pc = "loop"
  /\ i <= Len(subs)
  /\ LET sub == subs[i]
         sent_push_ids == get_all_sent_push_id(push_sent, sub.id, sub.device_id)
         events_filtered == remove_sent_events(
                              filter_events_kw(events, sub.keywords), sent_push_ids)
         today_rome == now_day * MinutesPerDay
         tomorrow_rome == today_rome + MinutesPerDay
         events_today == SelectSeq(events_filtered, LAMBDA e : in_day(e, today_rome))
         events_tomorrow == SelectSeq(events_filtered, LAMBDA e : in_day(e, tomorrow_rome))
         dec == Decision(sub, now_time, events_today, events_tomorrow)
         pl == FormatAll(dec.events)
         raises == dec.call /\ SendRaises(dec.type, pl)
         posting == dec.call /\ ~raises /\ Len(pl) > 0
     IN  /\ decision' =
               [sub |-> i, filtered |-> UidsOf(events_filtered),
                today |-> UidsOf(events_today), tomorrow |-> UidsOf(events_tomorrow),
                type |-> dec.type, uids |-> UidsOf(pl), raised |-> raises,
                window |-> sub.send_push_with_notifications
                             /\ InDailyWindow(sub, now_time)]
         /\ errors' = IF raises THEN errors + 1 ELSE errors
         /\ notifications' = IF dec.call /\ ~raises /\ ~posting
                               THEN notifications + 1 ELSE notifications
         /\ payload' = IF posting THEN pl ELSE <<>>
         /\ notification_type' = IF posting THEN dec.type ELSE "none"
         /\ pc' = IF posting THEN "send" ELSE "loop"
         /\ i' = IF posting THEN i ELSE i + 1
         /\ IF posting
              THEN today' \in SendDays(now_day, now_time)
              ELSE today' = -1
  /\ j' = 1
  /\ results' = <<>>
  /\ UNCHANGED <<pushTable, push_sent, passes, now_day, now_time, subs, events,
                 setup_failed, post, delivered, redelivered, daily_delivered,
                 lastTransient>>

\* push.py 171-196 with 198-234: one POST and the ledger writes that follow
\* it; after the last POST send_push_notification returns and main counts
\* the subscriber (main.py 126-128 and the like).
Post ==
  /\ pc = "send"
  /\ \E status \in Statuses, raised \in BOOLEAN, connected \in BOOLEAN,
        written \in 0..Len(PostUids(notification_type, payload, j)) :
       \* one representative of the inputs that the code cannot tell apart
       /\ raised => status = 500
       /\ ~connected => written = 0
       /\ LET sub == subs[i]
               event_uids == PostUids(notification_type, payload, j)
               ok == PostOk(raised, status)
               removed == PostRemoved(raised, status)
               stored == StoredUids(ok, event_uids, sub.id, sub.device_id,
                                    connected, written)
               answered200 == ~raised /\ status = 200
               transient == raised \/ status \notin ({200} \cup {403, 404, 410})
               keys == {Key(sub, u) : u \in Range(event_uids)}
               returns == SendReturns(notification_type, payload, j, removed)
           IN  /\ push_sent' = push_sent \cup UNION
                     {store_push_sent(push_sent, sub.id, u, sub.device_id) : u \in stored}
               /\ post' =
                     [sub |-> i, type |-> notification_type, uids |-> event_uids,
                      status |-> IF raised THEN RequestException ELSE status,
                      stored |-> stored,
                      remaining |-> IF notification_type = "Daily Notification"
                                      THEN 0 ELSE Len(payload) - j,
                      body |-> PostBody(notification_type, payload),
                      rendered |-> RenderedBody(notification_type, payload,
                                                j, today)]
               /\ delivered' = IF answered200 THEN delivered \cup keys ELSE delivered
               /\ redelivered' = IF answered200
                                    THEN redelivered \cup (delivered \cap keys)
                                    ELSE redelivered
               /\ daily_delivered' =
                     IF answered200 /\ notification_type = "Daily Notification"
                       THEN daily_delivered \cup {<<sub.id, sub.device_id>>}
                       ELSE daily_delivered
               /\ lastTransient' = IF transient THEN lastTransient \cup keys
                                   ELSE lastTransient \ keys
               /\ results' = IF returns \/ notification_type = "Daily Notification"
                               THEN <<>> ELSE Append(results, ok)
               /\ IF returns
                    THEN /\ notifications' = notifications + 1
                         /\ i' = i + 1
                         /\ pc' = "loop"
                         /\ j' = 1
                         /\ payload' = <<>>
                         /\ notification_type' = "none"
                         /\ today' = -1
                    ELSE /\ j' = j + 1
                         /\ UNCHANGED <<notifications, i, pc, payload,
                                        notification_type, today>>
  /\ UNCHANGED <<pushTable, passes, now_day, now_time, subs, events, errors,
                 setup_failed, decision>>

\* the loop over subs starting again instead of ending
EndPass_again ==
  /\ pc = "loop"
  /\ i > Len(subs)
  /\ i' = 1
  /\ UNCHANGED <<pushTable, push_sent, pc, passes, now_day, now_time, subs,
                 events, errors, notifications, payload, notification_type, j,
                 results, today, setup_failed, decision, post, delivered,
                 redelivered, daily_delivered, lastTransient>>

\* main.py 185: the loop is over, db.close_connection()
EndPass ==
  /\ pc = "loop"
  /\ i > Len(subs)
  /\ ProcessExit
  /\ UNCHANGED <<pushTable, push_sent, passes, now_day, now_time, setup_failed,
                 delivered, redelivered, daily_delivered, lastTransient>>

Next ==
  \/ StartPass
  \/ SetupFailure
  \/ LedgerReadFailure
  \/ EvaluateSubscriber
  \/ Post
  \/ EndPass

Spec == Init /\ [][Next]_vars

\* ------------------------------------------------- the daily window test
\* The same passes, run for one scheduled subscriber at the times of day
\* around its notification_time, before and after midnight.
WindowNowTimes == {0, 5, 6, 480, 495, 496, 1429, 1430, 1435, 1439}
WindowTables == {<<SubA>>, <<SubD>>}
WindowEventLists == {<<>>, <<E1, E2>>}

InitWindow == InitWith(WindowTables)

StartPassWindow == StartPassAt(WindowNowTimes, WindowEventLists)

NextWindow ==
  \/ StartPassWindow
  \/ LedgerReadFailure
  \/ EvaluateSubscriber
  \/ Post
  \/ EndPass

SpecWindow == InitWindow /\ [][NextWindow]_vars

TypeOK ==
  /\ push_sent \subseteq Keys
  /\ pc \in {"idle", "loop", "send"}
  /\ passes \in 0..MaxPasses
  /\ i \in 1..(Len(subs) + 1)
  /\ pc = "send" => j \in 1..Len(payload)
  /\ pc = "send" <=> today # -1

\* ------------------------------------------------------------- properties
\* Steps of the pass, told apart by the position of the process.
EvaluateStep == pc = "loop" /\ pc' # "idle"
PostStep == pc = "send"
TransientStatus(st) == st \notin ({200} \cup {403, 404, 410})
PermanentStatus(st) == st \in {403, 404, 410}
Matches(sub, e) ==
  \E kw \in sub.keywords : \E k \in 1..Len(e.summary) : Lower(kw) = Lower(e.summary[k])

\* C1: over any sequence of passes and any delivery and store outcomes, an
\* event is answered 200 at most once for the same (subscriber id, device id).
C1_DeliveredAtMostOnce == redelivered = {}

\* C2: once a sent record exists the event is removed by remove_sent_events for
\* that subscriber-device in every later evaluation and is in no payload handed
\* to send_push_notification, nor in a POST still to be made; records are only
\* ever added to the ledger.
C2_SentNeverResent ==
  /\ [](pc = "send" =>
          \A k \in j..Len(payload) : Key(subs[i], payload[k].uid) \notin push_sent)
  /\ [][/\ push_sent \subseteq push_sent'
        /\ EvaluateStep =>
             \A u \in Range(decision'.filtered) \cup Range(decision'.uids) :
                Key(subs[i], u) \notin push_sent]_vars

\* a later pass evaluates a subscriber for which a matching fetched event is
\* already recorded, and the event is filtered out
C2_Witness ==
  /\ pc # "idle" /\ decision.sub # 0 /\ post = NoPost
  /\ \E k \in 1..Len(events) :
       /\ Matches(subs[decision.sub], events[k])
       /\ Key(subs[decision.sub], events[k].uid) \in push_sent
       /\ events[k].uid \notin Range(decision.filtered)

\* C3: a sent record is written only by a POST answered 200 whose payload
\* covers the event, for the subscriber-device the POST was made for; any
\* other status, a request exception and every step that is not a POST leave
\* the ledger as it is.
C3_RecordOnlyAfter200 ==
  [][\A r \in push_sent' \ push_sent :
       /\ PostStep
       /\ post'.status = 200
       /\ \E u \in Range(post'.uids) : r = Key(subs[i], u)]_vars

C3_Witness == post.status = 200 /\ post.stored # {} /\ Len(post.uids) > 1

\* C4: when the backend answers 200 for a payload, the ledger then holds a
\* record for every event uid of that payload.
C4_SuccessRecordsAll ==
  (pc # "idle" /\ post.status = 200) =>
     \A u \in Range(post.uids) : Key(subs[post.sub], u) \in push_sent

\* C5: a failure while one subscriber is processed never ends the pass: the
\* loop is only left when every subscriber of the list has been evaluated.
C5_FailureNeverAborts ==
  [][(pc = "loop" /\ pc' = "idle") => i > Len(subs)]_vars

\* C6: in a Last Minute dispatch a permanently-invalid answer (403, 404, 410)
\* ends the sends to that subscriber for the pass, raises nothing (no error is
\* counted, nothing is recorded) and hands control to the next subscriber.
C6_PermanentHaltsSends ==
  /\ []((pc = "send" /\ post.sub = i) => ~PermanentStatus(post.status))
  /\ [][(PostStep /\ notification_type = "Last Minute Notification"
           /\ PermanentStatus(post'.status)) =>
          /\ pc' = "loop"
          /\ i' = i + 1
          /\ errors' = errors
          /\ push_sent' = push_sent
          /\ payload' = <<>>]_vars

\* the halt left events of the payload unsent, and the next subscriber has
\* been evaluated after it
C6_Witness ==
  /\ post.type = "Last Minute Notification"
  /\ PermanentStatus(post.status)
  /\ post.remaining > 0
  /\ decision.sub = post.sub + 1

\* C7: after a transient failure (a status other than 200, 403, 404, 410, or a
\* request exception) no record is written for the event, and the next time the
\* subscriber-device is evaluated the event, if still fetched and matching, is
\* new again: it is in events_filtered, in its bucket, and in the payload
\* whenever a notification is emitted that covers its bucket.
C7_TransientRetried ==
  /\ [](lastTransient \cap push_sent = {})
  /\ [][EvaluateStep =>
          \A k \in 1..Len(events) :
            LET e == events[k]
                u == e.uid
                inToday == in_day(e, now_day * MinutesPerDay)
                inTomorrow == in_day(e, (now_day + 1) * MinutesPerDay)
                emitted == decision'.type # "none"
                coversTomorrow ==
                  emitted /\ Range(decision'.tomorrow) \cap Range(decision'.uids) # {}
            IN  (Key(subs[i], u) \in lastTransient /\ Matches(subs[i], e)) =>
                  /\ u \in Range(decision'.filtered)
                  /\ inToday => u \in Range(decision'.today)
                  /\ inTomorrow => u \in Range(decision'.tomorrow)
                  /\ (inToday /\ emitted) => u \in Range(decision'.uids)
                  /\ (inTomorrow /\ coversTomorrow) => u \in Range(decision'.uids)]_vars

\* a pass is about to post an event whose send failed transiently in an
\* earlier pass
C7_Witness ==
  /\ pc = "send" /\ post = NoPost
  /\ \E k \in 1..Len(payload) : Key(subs[i], payload[k].uid) \in lastTransient

\* C8: a transient delivery failure is counted as an error of the pass: when
\* the dispatch returns after it, errors is incremented and the subscriber is
\* not counted as notified.
C8_TransientCountedAsError ==
  [][(PostStep /\ pc' = "loop" /\ TransientStatus(post'.status)) =>
        (errors' = errors + 1 /\ notifications' = notifications)]_vars

\* C9: scheduled mode, notification_day_before, inside the daily window: a
\* Daily notification is emitted with eventsToday followed by eventsTomorrow,
\* and the dispatch raises no error, also when both are empty.
C9_DailyEvenIfEmpty ==
  (pc # "idle" /\ decision.sub # 0
     /\ subs[decision.sub].send_push_with_notifications
     /\ subs[decision.sub].notification_day_before
     /\ InDailyWindow(subs[decision.sub], now_time)) =>
       /\ decision.type = "Daily Notification"
       /\ decision.uids = decision.today \o decision.tomorrow
       /\ ~decision.raised

\* C10: scheduled mode, notification_day_before false, inside the daily window:
\* Daily with exactly eventsToday when it is non-empty, nothing when it is
\* empty; no event of eventsTomorrow is ever included.
C10_DailyTodayOnly ==
  (pc # "idle" /\ decision.sub # 0
     /\ subs[decision.sub].send_push_with_notifications
     /\ ~subs[decision.sub].notification_day_before
     /\ InDailyWindow(subs[decision.sub], now_time)) =>
       /\ decision.today # <<>> =>
            (decision.type = "Daily Notification" /\ decision.uids = decision.today)
       /\ decision.today = <<>> =>
            (decision.type = "none" /\ decision.uids = <<>>)
       /\ Range(decision.uids) \cap Range(decision.tomorrow) = {}
       /\ ~decision.raised

C10_Witness ==
  /\ pc # "idle" /\ decision.sub # 0
  /\ subs[decision.sub].send_push_with_notifications
  /\ ~subs[decision.sub].notification_day_before
  /\ InDailyWindow(subs[decision.sub], now_time)
  /\ decision.today # <<>> /\ decision.tomorrow # <<>>
  /\ decision.type = "Daily Notification"

\* The subscriber the latest decision was taken for.
Decided == pc # "idle" /\ decision.sub # 0
DecidedSub == subs[decision.sub]
\* now's time of day is strictly after the time of day of the daily deadline
AfterDeadline(sub, t) ==
  t > (sub.notification_time + GraceMinutes) % MinutesPerDay
\* the deadline falls on the day of notification_time
SameDayDeadline(sub) == sub.notification_time + GraceMinutes < MinutesPerDay

C13_ImmediateIgnoresTime ==
  (Decided /\ ~DecidedSub.send_push_with_notifications) =>
       /\ (decision.today # <<>> \/ decision.tomorrow # <<>>) =>
            /\ decision.type = "Last Minute Notification"
            /\ decision.uids = decision.today \o decision.tomorrow
       /\ (decision.today = <<>> /\ decision.tomorrow = <<>>) =>
            /\ decision.type = "none"
            /\ decision.uids = <<>>
       /\ ~decision.window
       /\ ~decision.raised

\* immediate mode at a time of day inside the 15 minutes after
\* notification_time, with events today and tomorrow
C13_Witness ==
  /\ Decided /\ ~DecidedSub.send_push_with_notifications
  /\ DecidedSub.notification_time <= now_time
  /\ now_time <= DecidedSub.notification_time + GraceMinutes
  /\ decision.today # <<>> /\ decision.tomorrow # <<>>
  /\ decision.type = "Last Minute Notification"

\* now lies in the 15 minutes that start at notification_time, past midnight
\* included
InGraceWindow(sub, t) ==
  (t - sub.notification_time + MinutesPerDay) % MinutesPerDay <= GraceMinutes

\* C14: for every notification_time the scheduled policy is in the
\* WithinDailyWindow state exactly when now is between 0 and 15 minutes after
\* notification_time, also for a notification_time later than 23:44.
C14_WindowIsGraceWindow ==
  (Decided /\ DecidedSub.send_push_with_notifications) =>
     (decision.window <=> InGraceWindow(DecidedSub, now_time))

\* C15: a subscriber whose keywords are empty receives nothing: in every
\* pass, mode and time of day filter_events_kw leaves no event for it, nothing
\* is handed to a POST for it and no POST is made to its endpoint.
C15_NoKeywordsNothing ==
  /\ (Decided /\ DecidedSub.keywords = {}) =>
        /\ decision.filtered = <<>>
        /\ decision.today = <<>> /\ decision.tomorrow = <<>>
        /\ decision.uids = <<>>
  /\ (pc = "send" /\ i <= Len(subs)) => subs[i].keywords # {}
  /\ (pc # "idle" /\ post.sub # 0) => subs[post.sub].keywords # {}
  /\ \A k \in delivered \cup push_sent :
        \A n \in 1..Len(pushTable) :
           (pushTable[n].id = k[1] /\ pushTable[n].device_id = k[2]) =>
              pushTable[n].keywords # {}

\* a subscriber without keywords has been evaluated against a non-empty
\* event list, in scheduled mode
C15_Witness ==
  /\ Decided /\ DecidedSub.keywords = {}
  /\ DecidedSub.send_push_with_notifications
  /\ Len(events) > 0
  /\ decision.filtered = <<>>

\* C16: dedup is per (subscriber id, device id): a record of another device
\* of the same subscriber does not make an event sent for this device, and a
\* dispatch to (s, d) writes only records with key (s, d) and a uid of the
\* payload sent to (s, d).
C16_DedupPerDevice ==
  [][/\ EvaluateStep =>
          \A k \in 1..Len(events) :
             (Matches(subs[i], events[k])
                /\ Key(subs[i], events[k].uid) \notin push_sent) =>
                   events[k].uid \in Range(decision'.filtered)
     /\ \A r \in push_sent' \ push_sent :
          /\ r[1] = subs[i].id
          /\ r[2] = subs[i].device_id
          /\ r[3] \in Range(decision.uids)
          /\ decision.sub = i]_vars

\* the event is recorded for another device of the subscriber and is new for
\* this one
C16_Witness ==
  /\ Decided
  /\ \E u \in Range(decision.filtered) :
       \E r \in push_sent :
          /\ r[1] = DecidedSub.id
          /\ r[2] # DecidedSub.device_id
          /\ r[3] = u
          /\ <<DecidedSub.id, DecidedSub.device_id, u>> \notin push_sent

\* C17: when the fetch of the events fails the pass runs with no events and
\* is a no-op: for every subscriber, mode and time of day no POST is made or
\* pending, nothing is handed to send, and no error is counted.
C17_FetchFailureNoOp ==
  (pc # "idle" /\ events = <<>>) =>
     /\ pc # "send"
     /\ post = NoPost
     /\ decision.uids = <<>>
     /\ errors = 0

\* ResolveStart of section 4.2 in minutes since day 0, -1 when unresolved
ResolvedStart(e) ==
  IF e.start_dateTime.fmt = "iso-datetime"
    THEN e.start_dateTime.day * MinutesPerDay + e.start_dateTime.min
    ELSE IF e.start_dateTime.fmt = "none" /\ e.start_date.fmt = "iso-date"
           THEN e.start_date.day * MinutesPerDay
           ELSE -1
UnresolvedUids ==
  {e.uid : e \in {x \in UNION {Range(l) : l \in EventLists} : ResolvedStart(x) = -1}}

\* C18: with todayStart the midnight of the now of the pass, a new event is in
\* eventsToday iff its resolved start is in [todayStart, todayStart + 24h) and
\* in eventsTomorrow iff it is in [todayStart + 24h, todayStart + 48h); the two
\* are disjoint, and an event without a resolved start is in neither and is
\* never sent.
C18_Buckets ==
  /\ Decided =>
       /\ \A k \in 1..Len(events) :
            LET e == events[k]
                st == ResolvedStart(e)
                new == e.uid \in Range(decision.filtered)
                todayStart == now_day * MinutesPerDay
            IN  /\ e.uid \in Range(decision.today) <=>
                     (new /\ st # -1 /\ todayStart <= st
                          /\ st < todayStart + MinutesPerDay)
                /\ e.uid \in Range(decision.tomorrow) <=>
                     (new /\ st # -1 /\ todayStart + MinutesPerDay <= st
                          /\ st < todayStart + 2 * MinutesPerDay)
                /\ st = -1 => e.uid \notin Range(decision.uids)
       /\ Range(decision.today) \cap Range(decision.tomorrow) = {}
       /\ Range(decision.uids) \subseteq
            Range(decision.today) \cup Range(decision.tomorrow)
  /\ \A k \in delivered \cup push_sent : k[3] \notin UnresolvedUids
  /\ pc # "idle" => \A u \in Range(post.uids) : u \notin UnresolvedUids

\* an evaluation with a new event that starts exactly at tomorrow's midnight,
\* or with a new event without a resolved start next to a bucketed one
C18_Witness ==
  /\ Decided
  /\ decision.tomorrow # <<>>
  /\ \/ decision.today # <<>>
     \/ Range(decision.filtered) \cap UnresolvedUids # {}

\* The POSTs of a dispatch that reaches the endpoint: a Daily makes one POST
\* (count body and all uids for more than one event, the event's own body for
\* one), a Last Minute makes one POST per event in payload order.
C19_PostsAsRendered ==
  /\ [](pc = "send" =>
          /\ UidsOf(payload) = decision.uids
          /\ notification_type = decision.type
          /\ j = Len(results) + 1
          /\ notification_type = "Daily Notification" => (j = 1 /\ post.sub # i))
  /\ [][PostStep =>
          IF notification_type = "Daily Notification"
            THEN /\ pc' = "loop" /\ i' = i + 1
                 /\ post'.uids = UidsOf(payload)
                 /\ Len(payload) > 1 => post'.body = "count"
                 /\ Len(payload) = 1 => post'.body = "event"
            ELSE /\ post'.uids = <<payload[j].uid>>
                 /\ post'.body = "event"
                 /\ pc' = "send" => (j' = j + 1 /\ payload' = payload /\ i' = i)
                 /\ pc' = "loop" =>
                      (j = Len(payload) \/ PermanentStatus(post'.status))]_vars

\* C19: a Daily dispatch makes exactly one POST whatever the number of events:
\* with more than one event the body is the count message and the POST covers
\* all uids, with one event the body is the event's own; a Last Minute dispatch
\* makes one POST per event, in payload order.
C19_OnePostPerDaily ==
  /\ C19_PostsAsRendered
  /\ [][(EvaluateStep /\ decision'.type = "Daily Notification") =>
          (pc' = "send" /\ UidsOf(payload') = decision'.uids)]_vars

\* C20: when the setup fails (connection or subscriber listing) the pass ends
\* at once: no subscriber is evaluated, no POST is made and no record written.
C20_SetupFailureAborts ==
  /\ [](setup_failed =>
          (pc = "idle" /\ subs = <<>> /\ decision = NoDecision /\ post = NoPost))
  /\ [][setup_failed' =>
          (push_sent' = push_sent /\ delivered' = delivered)]_vars

\* a pass failed in its setup while the push table has rows and the ledger
\* has records
C20_Witness ==
  /\ setup_failed
  /\ Len(pushTable) > 0
  /\ push_sent # {}

\* The calendar days of the start and of the end of a fetched event, -1 when
\* the field is missing.
RawStartDay(e) ==
  IF e.start_dateTime.fmt = "iso-datetime" THEN e.start_dateTime.day
  ELSE IF e.start_date.fmt = "iso-date" THEN e.start_date.day ELSE -1
RawEndDay(e) ==
  IF e.end_dateTime.fmt = "iso-datetime" THEN e.end_dateTime.day
  ELSE IF e.end_date.fmt = "iso-date" THEN e.end_date.day ELSE -1
MultiDay(e) ==
  RawStartDay(e) # -1 /\ RawEndDay(e) # -1 /\ RawStartDay(e) # RawEndDay(e)
Timed(e) == e.start_dateTime.fmt = "iso-datetime" /\ e.end_dateTime.fmt = "iso-datetime"
\* the fetched events the latest POST built its body from
PostedEvents ==
  IF pc # "idle" /\ post.body = "event"
    THEN {e \in Range(events) : e.uid = post.uids[1]}
    ELSE {}
\* the body is the date range of e, with the two times when e is timed
RangeBodyOf(b, e) ==
  /\ b.shape = "range"
  /\ b.sdate = RawStartDay(e)
  /\ b.edate = RawEndDay(e)
  /\ IF Timed(e)
       THEN /\ b.stime = [fmt |-> "hhmm", day |-> 0, min |-> e.start_dateTime.min]
            /\ b.etime = [fmt |-> "hhmm", day |-> 0, min |-> e.end_dateTime.min]
       ELSE b.stime = Absent /\ b.etime = Absent

\* The all-day half of C21: an all-day event whose start.date and end.date
\* differ is rendered as the range 'DD/MM - DD/MM'.
C21_AllDayRange ==
  \A e \in PostedEvents : (MultiDay(e) /\ ~Timed(e)) => RangeBodyOf(post.rendered, e)

\* C21: an event dispatched through format_event_for_display and
\* _build_body_for_event whose start and end are on different calendar days
\* is rendered as a date range 'DD/MM[ HH:MM] - DD/MM[ HH:MM]', all-day
\* (start.date / end.date) and timed (start.dateTime / end.dateTime) alike.
C21_MultiDayRange ==
  \A e \in PostedEvents : MultiDay(e) => RangeBodyOf(post.rendered, e)

\* C22: the Daily notification is once per day: over the passes of one
\* calendar day, several of them inside the window and with events added to
\* the source between them, at most one Daily is answered 200 for a given
\* (subscriber, device).
C22_DailyOncePerDay ==
  [][(PostStep /\ notification_type = "Daily Notification"
        /\ post'.status = 200) =>
          <<subs[i].id, subs[i].device_id>> \notin daily_delivered]_vars

\* C23: the event list fetched at the start of the pass is not modified by
\* evaluating or dispatching to a subscriber: the formatting works on copies,
\* every subscriber is filtered and bucketed against the same original
\* events, and the formatted fields are in the payload only.
C23_EventsImmutable ==
  /\ [](\A e \in Range(events) :
          /\ e.formatted_time = Absent
          /\ e.start_date.fmt \in {"none", "iso-date"}
          /\ e.end_date.fmt \in {"none", "iso-date"}
          /\ e.start_dateTime.fmt \in {"none", "iso-datetime"}
          /\ e.end_dateTime.fmt \in {"none", "iso-datetime"})
  /\ [][/\ (pc # "idle" /\ pc' # "idle") => events' = events
        /\ EvaluateStep =>
             /\ \A e \in Range(events) :
                  /\ e.uid \in Range(decision'.filtered) <=>
                       (Matches(subs[i], e) /\ Key(subs[i], e.uid) \notin push_sent)
                  /\ e.uid \in Range(decision'.today) <=>
                       (e.uid \in Range(decision'.filtered)
                          /\ RawStartDay(e) = now_day)
                  /\ e.uid \in Range(decision'.tomorrow) <=>
                       (e.uid \in Range(decision'.filtered)
                          /\ RawStartDay(e) = now_day + 1)
             /\ \A k \in 1..Len(payload') :
                  \E e \in Range(events) :
                     payload'[k] = format_event_for_display(e)]_vars

\* the second subscriber of the pass is handed an event that was formatted
\* and posted for the first one
C23_Witness ==
  /\ pc # "idle"
  /\ decision.sub = 2
  /\ post.sub = 1
  /\ post.status = 200
  /\ Range(post.uids) \cap Range(decision.uids) # {}
  /\ \E e \in Range(events) :
       e.uid \in Range(decision.uids) /\ format_event_for_display(e) # e

\* C24: in one pass each subscriber row is evaluated at most once, in list
\* order, and send_push_notification is called at most once for it, as a
\* Daily or as a Last Minute, never both.
C24_OneDecisionPerSubscriber ==
  /\ [](pc = "send" =>
          /\ decision.sub = i
          /\ notification_type = decision.type
          /\ notification_type \in {"Daily Notification", "Last Minute Notification"})
  /\ [](pc # "idle" => post.sub <= decision.sub)
  /\ [][/\ EvaluateStep =>
             /\ decision'.sub = i
             /\ decision'.sub = decision.sub + 1
             /\ post' = post
        /\ (pc # "idle" /\ pc' # "idle") => i' \in {i, i + 1}
        /\ PostStep =>
             /\ decision' = decision
             /\ post'.sub = decision.sub
             /\ post'.type = decision.type
             /\ post.sub = i => post'.type = post.type]_vars

\* the two subscribers of a pass were each called once, one with a Last
\* Minute and the other with a Daily
C24_Witness ==
  /\ pc # "idle"
  /\ decision.sub = 2
  /\ post.sub = 2
  /\ decision.type = "Daily Notification"
  /\ i = 3
  /\ notifications = 2

\* The part of C25 about the order of the sends: a Last Minute dispatch goes
\* on with the next event after a 200 and after a transient failure, and
\* stops at the end of the payload or at the first permanent answer only.
C25_TransientDoesNotStop ==
  [][(PostStep /\ notification_type = "Last Minute Notification") =>
        /\ post'.uids = <<payload[j].uid>>
        /\ (~PermanentStatus(post'.status) /\ j < Len(payload)) =>
              (pc' = "send" /\ j' = j + 1 /\ payload' = payload)
        /\ pc' = "loop" => (j = Len(payload) \/ PermanentStatus(post'.status))]_vars

\* C25: in a Last Minute dispatch a transient failure of one event's send does
\* not stop the dispatch: sends are attempted for all events in order until
\* the end of the payload or the first permanent answer, and every event
\* whose own send was answered 200 is recorded, whatever happens to the
\* others.
C25_LastMinuteIndependent ==
  /\ C25_TransientDoesNotStop
  /\ [][(PostStep /\ notification_type = "Last Minute Notification"
           /\ post'.status = 200) =>
             Key(subs[i], payload[j].uid) \in push_sent']_vars

\* C26: the day label of a body agrees with the bucket the event was sent
\* from: a single-day event from eventsToday is labelled 'Oggi' and one from
\* eventsTomorrow 'Domani', whenever the send happens after the now of the
\* pass.
C26_LabelAgreesWithBucket ==
  (pc # "idle" /\ post.sub = decision.sub) =>
     \A e \in PostedEvents :
        (RawStartDay(e) # -1 /\ ~MultiDay(e)) =>
           /\ e.uid \in Range(decision.today) => post.rendered.label = "Oggi"
           /\ e.uid \in Range(decision.tomorrow) => post.rendered.label = "Domani"

====
